---- MODULE Spec2Model ----
\* Mass attacher (src/mass_attacher.c): attach planning (prepare), program
\* multiplexing (load), attach, activate and teardown, as a state machine.
\* C strings are sequences of one-character strings; the type database,
\* /proc/kallsyms and available_filter_functions are the host the attacher
\* runs on and are drawn from bounded sets in Init.
EXTENDS Integers, Sequences, FiniteSets, TLC

\* ------------------------------------------------------------------ bounds
MaxUserGlobs == 2      \* allow_glob/deny_glob calls that add a rule
MaxFuncs == 3          \* FUNC types in the host's type database
MaxFuncCntOpt == 2     \* largest max_func_cnt option tried
MaxGlobBody == 3       \* characters of a glob between its wildcards
MaxStrLen == 4         \* length of a string matched against a glob
MaxParams == 2         \* parameters of a generated function prototype
MaxChain == 3          \* types of a generated modifier/typedef chain database

\* --------------------------------------------------------------- constants
MAX_FUNC_ARG_CNT == 11
EINVAL == 22
ENOENT == 2
EPERM == 1

Arities == 0..MAX_FUNC_ARG_CNT

\* a null char* (no C character is a multi-character string)
NULL == <<"NULL">>

\* ----------------------------------------------------------------- strings
CharCode ==
    ("*" :> 42) @@ ("1" :> 49) @@ ("_" :> 95) @@ ("a" :> 97) @@ ("b" :> 98) @@
    ("c" :> 99) @@ ("d" :> 100) @@ ("e" :> 101) @@ ("f" :> 102) @@ ("g" :> 103) @@
    ("h" :> 104) @@ ("i" :> 105) @@ ("k" :> 107) @@ ("l" :> 108) @@ ("m" :> 109) @@
    ("n" :> 110) @@ ("o" :> 111) @@ ("p" :> 112) @@ ("r" :> 114) @@ ("s" :> 115) @@
    ("t" :> 116) @@ ("u" :> 117) @@ ("v" :> 118) @@ ("w" :> 119) @@ ("x" :> 120) @@
    ("y" :> 121) @@ ("z" :> 122)

RECURSIVE strcmp(_, _)
strcmp(a, b) ==
    IF a = <<>> /\ b = <<>> THEN 0
    ELSE IF a = <<>> THEN -1
    ELSE IF b = <<>> THEN 1
    ELSE IF Head(a) = Head(b) THEN strcmp(Tail(a), Tail(b))
    ELSE IF CharCode[Head(a)] < CharCode[Head(b)] THEN -1 ELSE 1

Take(s, n) == SubSeq(s, 1, IF n < Len(s) THEN n ELSE Len(s))

strncmp(a, b, n) == strcmp(Take(a, n), Take(b, n))

\* strstr(s, needle) != NULL
strstr(s, needle) ==
    \E k \in 0..(Len(s) - Len(needle)) : SubSeq(s, k + 1, k + Len(needle)) = needle

\* ------------------------------------------------------------- glob engine
\* as is_valid_glob, without the test for "**"
is_valid_glob_NoDoubleStar(glob) ==
    IF glob = NULL THEN FALSE
    ELSE IF Len(glob) = 0 THEN FALSE
    ELSE IF \E i \in 1..Len(glob) : glob[i] = "*" /\ i # 1 /\ i # Len(glob) THEN FALSE
    ELSE TRUE

is_valid_glob(glob) ==
    IF glob = NULL THEN FALSE
    ELSE IF Len(glob) = 0 THEN FALSE
    ELSE IF \E i \in 1..Len(glob) : glob[i] = "*" /\ i # 1 /\ i # Len(glob) THEN FALSE
    ELSE IF strcmp(glob, <<"*", "*">>) = 0 THEN FALSE
    ELSE TRUE

\* as glob_matches, with the suffix case comparing from the start of the string
glob_matches_SuffixFromStart(glob, s) ==
    LET n == Len(glob) IN
    IF n = 1 /\ glob[1] = "*" THEN TRUE
    ELSE IF glob[1] = "*" /\ glob[n] = "*"
         THEN strstr(s, SubSeq(glob, 2, n - 1))
    ELSE IF glob[1] = "*"
         THEN LET nn == Len(s) IN
              IF nn < n - 1 THEN FALSE
              ELSE strcmp(SubSeq(s, 1, n - 1), SubSeq(glob, 2, n)) = 0
    ELSE IF glob[n] = "*"
         THEN strncmp(s, glob, n - 1) = 0
    ELSE strcmp(glob, s) = 0

glob_matches(glob, s) ==
    LET n == Len(glob) IN
    IF n = 1 /\ glob[1] = "*" THEN TRUE
    ELSE IF glob[1] = "*" /\ glob[n] = "*"
         THEN strstr(s, SubSeq(glob, 2, n - 1))
    ELSE IF glob[1] = "*"
         THEN LET nn == Len(s) IN
              IF nn < n - 1 THEN FALSE
              ELSE strcmp(SubSeq(s, nn - (n - 1) + 1, nn), SubSeq(glob, 2, n)) = 0
    ELSE IF glob[n] = "*"
         THEN strncmp(s, glob, n - 1) = 0
    ELSE strcmp(glob, s) = 0

enforced_deny_globs == <<
    <<"b","p","f","_","g","e","t","_","s","m","p","_","p","r","o","c","e","s","s","o","r","_","i","d">>,
    <<"m","i","g","r","a","t","e","_","e","n","a","b","l","e">>,
    <<"m","i","g","r","a","t","e","_","d","i","s","a","b","l","e">>,
    <<"r","c","u","_","r","e","a","d","_","l","o","c","k","*">>,
    <<"r","c","u","_","r","e","a","d","_","u","n","l","o","c","k","*">>,
    <<"_","_","b","p","f","_","p","r","o","g","_","e","n","t","e","r","*">>,
    <<"_","_","b","p","f","_","p","r","o","g","_","e","x","i","t","*">>,
    <<"*","_","s","y","s","_","s","e","l","e","c","t">>,
    <<"*","_","s","y","s","_","e","p","o","l","l","_","w","a","i","t">>,
    <<"*","_","s","y","s","_","p","p","o","l","l">> >>

\* --------------------------------------------------------- type database
\* A type is [kind, name, type, params]; ids are 1-based positions, id 0 is void.
BtfType(kind, name, type, params) ==
    [kind |-> kind, name |-> name, type |-> type, params |-> params]

btf_void == BtfType("VOID", <<>>, 0, <<>>)

btf__get_nr_types(btf) == Len(btf)

btf__type_by_id(btf, id) == IF id = 0 THEN btf_void ELSE btf[id]

btf_is_func(t) == t.kind = "FUNC"
btf_is_mod(t) == t.kind \in {"VOLATILE", "CONST", "RESTRICT"}
btf_is_typedef(t) == t.kind = "TYPEDEF"
btf_is_int(t) == t.kind = "INT"
btf_is_ptr(t) == t.kind = "PTR"
btf_is_enum(t) == t.kind = "ENUM"
btf_is_composite(t) == t.kind \in {"STRUCT", "UNION"}
btf_vlen(t) == Len(t.params)

\* while (btf_is_mod(t) || btf_is_typedef(t)) t = btf__type_by_id(btf, t->type);
\* run to its end in one piece, on databases whose chains end; strip_step takes
\* the same loop one turn at a time on databases whose chains may not
RECURSIVE skip_mods_and_typedefs(_, _)
skip_mods_and_typedefs(btf, t) ==
    IF btf_is_mod(t) \/ btf_is_typedef(t)
    THEN skip_mods_and_typedefs(btf, btf__type_by_id(btf, t.type))
    ELSE t

is_arg_type_ok(btf, t0) ==
    LET t == skip_mods_and_typedefs(btf, t0) IN
    IF ~btf_is_int(t) /\ ~btf_is_ptr(t) /\ ~btf_is_enum(t) THEN FALSE ELSE TRUE

is_ret_type_ok(btf, t0) ==
    LET t == skip_mods_and_typedefs(btf, t0) IN
    IF btf_is_int(t) \/ btf_is_enum(t) THEN TRUE
    ELSE IF ~btf_is_ptr(t) THEN FALSE
    ELSE IF t.type = 0 THEN TRUE
    ELSE IF ~btf_is_composite(btf__type_by_id(btf, t.type)) THEN FALSE
    ELSE TRUE

is_func_type_ok(btf, t0) ==
    LET t == btf__type_by_id(btf, t0.type) IN
    IF btf_vlen(t) > MAX_FUNC_ARG_CNT THEN FALSE
    ELSE IF t.type = 0 THEN FALSE
    ELSE IF t.type # 0 /\ ~is_ret_type_ok(btf, btf__type_by_id(btf, t.type)) THEN FALSE
    ELSE \A i \in 1..btf_vlen(t) :
            /\ t.params[i] # 0
            /\ is_arg_type_ok(btf, btf__type_by_id(btf, t.params[i]))

func_arg_cnt(btf, id) ==
    btf_vlen(btf__type_by_id(btf, btf__type_by_id(btf, id).type))

\* ------------------------------------------------------------ symbol index
\* ksyms is a set of [name, addr] records with unique names.
NoKsym == [name |-> NULL, addr |-> 0]

ksyms__get_symbol(ksyms, name) ==
    IF \E r \in ksyms : r.name = name
    THEN CHOOSE r \in ksyms : r.name = name
    ELSE NoKsym

\* ------------------------------------------------------ traceable-name list
\* A line of available_filter_functions is [name, rest]; rest says that more
\* tokens follow the name on the line.
RECURSIVE read_kprobe_lines(_)
read_kprobe_lines(lines) ==
    IF lines = <<>> \/ Head(lines).rest THEN <<>>
    ELSE <<Head(lines).name>> \o read_kprobe_lines(Tail(lines))

str_cmp(a, b) == strcmp(a, b)

InsertSorted(x, s) ==
    LET k == Cardinality({j \in 1..Len(s) : str_cmp(s[j], x) <= 0}) IN
    SubSeq(s, 1, k) \o <<x>> \o SubSeq(s, k + 1, Len(s))

RECURSIVE qsort(_)
qsort(s) == IF s = <<>> THEN <<>> ELSE InsertSorted(Head(s), qsort(Tail(s)))

load_available_kprobes(lines) == qsort(read_kprobe_lines(lines))

RECURSIVE bsearch(_, _, _, _)
bsearch(key, base, lo, hi) ==
    IF lo >= hi THEN FALSE
    ELSE LET mid == (lo + hi) \div 2
             c == str_cmp(key, base[mid + 1])
         IN  IF c = 0 THEN TRUE
             ELSE IF c < 0 THEN bsearch(key, base, lo, mid)
             ELSE bsearch(key, base, mid + 1, hi)

is_kprobe_ok_Always(kprobes, name) == TRUE

is_kprobe_ok(kprobes, name) == bsearch(name, kprobes, 0, Len(kprobes))

\* ------------------------------------------------------------------- host
N_a == <<"a">>
N_b == <<"b">>
N_ab == <<"a", "b">>
N_aa == <<"a", "a">>
N_migrate_enable == enforced_deny_globs[2]
N_bpf_prog_enter_v1 ==
    <<"_","_","b","p","f","_","p","r","o","g","_","e","n","t","e","r","_","v","1">>

\* Types every host has: id 1 int, 2 void *, 3 struct, 4 struct *, 5 typedef
\* of int, then the prototypes the host's functions use.
Proto == [args0 |-> 6, args1 |-> 7, void_ret |-> 8, args2 |-> 9, args12 |-> 10]

BaseTypes == <<
    BtfType("INT", <<"i">>, 0, <<>>),
    BtfType("PTR", <<>>, 0, <<>>),
    BtfType("STRUCT", <<"s">>, 0, <<>>),
    BtfType("PTR", <<>>, 3, <<>>),
    BtfType("TYPEDEF", <<"t">>, 1, <<>>),
    BtfType("FUNC_PROTO", <<>>, 1, <<>>),
    BtfType("FUNC_PROTO", <<>>, 4, <<5>>),
    BtfType("FUNC_PROTO", <<>>, 0, <<1>>),
    BtfType("FUNC_PROTO", <<>>, 5, <<2, 5>>),
    BtfType("FUNC_PROTO", <<>>, 1, <<1, 1, 1, 1, 1, 1, 1, 1, 1, 1, 1, 1>>) >>

FirstFuncId == Len(BaseTypes) + 1

\* [name, proto] of the FUNC types a host may hold: functions that have a
\* symbol, are traceable and have a traceable prototype ...
F_ab1 == [name |-> N_ab, proto |-> Proto.args1]
F_aa1 == [name |-> N_aa, proto |-> Proto.args1]
F_ab0 == [name |-> N_ab, proto |-> Proto.args0]
Attachable == {F_ab1, F_aa1, F_ab0}

\* ... and functions that miss one of the three, or are always denied
Unattachable == {
    [name |-> N_b, proto |-> Proto.args2],
    [name |-> N_a, proto |-> Proto.args1],
    [name |-> N_ab, proto |-> Proto.void_ret],
    [name |-> N_ab, proto |-> Proto.args12],
    [name |-> N_migrate_enable, proto |-> Proto.args0] }

\* the FUNC types of a host, in type-id order: any attachable functions, or
\* one unattachable function at any place among attachable ones
FuncSeqs ==
    [1..MaxFuncs -> Attachable] \cup
    {[k \in 1..MaxFuncs |-> IF k = at THEN x ELSE IF k % 2 = 1 THEN F_ab1 ELSE F_aa1] :
        at \in 1..MaxFuncs, x \in Unattachable}

\* /proc/kallsyms: "a" has no symbol
Kallsyms == {
    [name |-> N_ab, addr |-> 16],
    [name |-> N_aa, addr |-> 32],
    [name |-> N_b, addr |-> 48],
    [name |-> N_migrate_enable, addr |-> 64],
    [name |-> N_bpf_prog_enter_v1, addr |-> 80] }

\* available_filter_functions: "b" is on a line that carries a module tag
FilterFunctions == <<
    [name |-> N_aa, rest |-> FALSE],
    [name |-> N_migrate_enable, rest |-> FALSE],
    [name |-> N_ab, rest |-> FALSE],
    [name |-> N_a, rest |-> FALSE],
    [name |-> N_bpf_prog_enter_v1, rest |-> FALSE],
    [name |-> N_b, rest |-> TRUE] >>

MkBtf(fs) ==
    BaseTypes \o [k \in 1..Len(fs) |-> BtfType("FUNC", fs[k].name, fs[k].proto, <<>>)]

Hosts ==
    {[btf |-> MkBtf(fs), kallsyms |-> Kallsyms, filter_functions |-> FilterFunctions] :
        fs \in FuncSeqs}

\* ------------------------------------------------------------- the template
Prog(kind, n) == [kind |-> kind, n |-> n]
NoProg == Prog("none", 0)
Progs == {Prog(kind, n) : kind \in {"fentry", "fexit"}, n \in Arities}

\* bpf_program__name(prog) starts with "fexit"
name_is_fexit(prog) == prog.kind = "fexit"

\* the finalized bytecode the loader hands to the prep hook of a program
skel_insns(prog) ==
    IF prog.kind = "fentry" THEN <<1, prog.n>> ELSE <<2, prog.n, prog.n + 1>>

\* the order in which the loader walks the template's programs
ProgOrder ==
    [k \in 1..(2 * (MAX_FUNC_ARG_CNT + 1)) |->
        Prog(IF k % 2 = 1 THEN "fentry" ELSE "fexit", (k - 1) \div 2)]

SkelInit ==
    [ready |-> FALSE,
     attach_target |-> [p \in Progs |-> NULL],
     prep |-> [p \in Progs |-> FALSE],
     autoload |-> [p \in Progs |-> TRUE],
     loaded |-> {},
     max_entries |-> 0,
     ip_to_id |-> {}]

\* ------------------------------------------------------------- the attacher
NoInsns == [present |-> FALSE, insns |-> <<>>]

\* calloc(1, sizeof(*att))
AttZero ==
    [max_func_cnt |-> 0, debug |-> FALSE,
     func_filter |-> [set |-> FALSE, rejects |-> {}],
     ksyms |-> [loaded |-> FALSE, syms |-> {}],
     vmlinux_btf |-> <<>>,
     kprobes |-> <<>>,
     fentries |-> [k \in Arities |-> NoProg],
     fexits |-> [k \in Arities |-> NoProg],
     fentries_insns |-> [k \in Arities |-> NoInsns],
     fexits_insns |-> [k \in Arities |-> NoInsns],
     func_infos |-> <<>>,
     func_cnt |-> 0,
     func_info_cnts |-> [k \in Arities |-> 0],
     func_info_id_for_arg_cnt |-> [k \in Arities |-> 0],
     allow_globs |-> <<>>,
     deny_globs |-> <<>>]

\* a func_filter is the set of <<type id, accepted count>> pairs it rejects
NoFilter == [set |-> FALSE, rejects |-> {}]
\* a filter that rejects the second function always and the third one when
\* one function has been accepted before it
FilterChoices == {
    NoFilter,
    [set |-> TRUE,
     rejects |-> {<<FirstFuncId + 1, c>> : c \in 0..MaxFuncs} \cup {<<FirstFuncId + 2, 1>>}] }

NoOpts == [null |-> TRUE, max_func_cnt |-> 0, debug |-> FALSE, func_filter |-> NoFilter]
OptsChoices ==
    {NoOpts} \cup
    {[null |-> FALSE, max_func_cnt |-> m, debug |-> FALSE, func_filter |-> f] :
        m \in 0..MaxFuncCntOpt, f \in FilterChoices} \cup
    {[null |-> FALSE, max_func_cnt |-> 0, debug |-> TRUE, func_filter |-> NoFilter]}

GlobArgs == {
    <<"a", "*">>, <<"*", "b">>,
    NULL, <<>>, <<"*", "*">>, <<"a", "*", "b">> }

VARIABLES
    pc,             \* the caller's position in the attacher's life cycle
    host,           \* type database, kallsyms and available_filter_functions
    att,            \* struct mass_attacher
    skel,           \* the template (skeleton): programs, bss, ip_to_id map
    cur_attacher,   \* the thread-local pointer: TRUE when it points to att
    i,              \* loop variable of prepare and load
    next_prog,      \* loader position in ProgOrder
    ret,            \* return value of the last call
    next_fd,        \* the next program fd the kernel hands out
    user_rules,     \* history: allow_glob/deny_glob calls that added a rule
    heap,           \* live allocations owned by the attacher
    candidates,     \* history: names the allow/deny filter was asked about
    filter_calls,   \* history: func_filter invocations <<id, name, count>>
    hook_calls,     \* history: prep hook invocations [prog, insns]
    clone_calls,    \* history: clone_prog invocations
    attach_calls,   \* history: bpf_raw_tracepoint_open calls [fd, err]
    call            \* a helper applied on its own, its arguments and its result

hist == <<candidates, filter_calls, hook_calls, clone_calls, attach_calls>>

vars == <<pc, host, att, skel, cur_attacher, i, next_prog, ret, next_fd, user_rules,
          heap, hist, call>>

NoProto == [ret |-> 0, params |-> <<>>]

NoCall == [fn |-> "none", glob |-> <<>>, s |-> <<>>, proto |-> NoProto, t |-> 0,
           turn |-> 0, done |-> FALSE, out |-> FALSE]

Init ==
    /\ pc = "start"
    /\ host \in Hosts
    /\ att = AttZero
    /\ skel = SkelInit
    /\ cur_attacher = FALSE
    /\ i = 0
    /\ next_prog = 1
    /\ ret = 0
    /\ next_fd = 3
    /\ user_rules = 0
    /\ heap = {<<"skel", 0>>}
    /\ candidates = 0
    /\ filter_calls = <<>>
    /\ hook_calls = <<>>
    /\ clone_calls = <<>>
    /\ attach_calls = <<>>
    /\ call = NoCall

\* ------------------------------------------------------------ rule lists
Rule(glob) == [glob |-> glob, matches |-> 0]

\* realloc + strdup + append of allow_glob/deny_glob
append_glob(globs, glob) == Append(globs, Rule(glob))

RECURSIVE deny_all(_, _)
deny_all(globs, pats) ==
    IF pats = <<>> THEN globs
    ELSE deny_all(append_glob(globs, Head(pats)), Tail(pats))

\* mass_attacher__new past the skeleton check: the attacher it returns
new_attacher(opts) ==
    IF opts.null THEN AttZero
    ELSE [AttZero EXCEPT !.max_func_cnt = opts.max_func_cnt,
                         !.debug = opts.debug,
                         !.func_filter = opts.func_filter,
                         !.deny_globs = deny_all(<<>>, enforced_deny_globs)]

GlobAllocs(list, globs) ==
    (IF Len(globs) > 0 THEN {<<list, 0>>} ELSE {}) \cup
    {<<list, j>> : j \in 1..Len(globs)}

mass_attacher__new(has_skel, opts) ==
    /\ pc = "start"
    /\ IF ~has_skel
       THEN /\ pc' = "no_attacher"
            /\ UNCHANGED <<att, heap>>
       ELSE /\ pc' = "setup"
            /\ att' = new_attacher(opts)
            /\ heap' = heap \cup {<<"att", 0>>}
                            \cup GlobAllocs("deny_globs", new_attacher(opts).deny_globs)
    /\ ret' = 0
    /\ UNCHANGED <<host, call, skel, cur_attacher, i, next_prog, next_fd, user_rules, hist>>

mass_attacher__allow_glob(glob) ==
    /\ pc = "setup"
    /\ IF ~is_valid_glob(glob)
       THEN /\ ret' = -EINVAL
            /\ UNCHANGED <<att, heap, user_rules>>
       ELSE /\ user_rules < MaxUserGlobs
            /\ user_rules' = user_rules + 1
            /\ att' = [att EXCEPT !.allow_globs = append_glob(@, glob)]
            /\ heap' = heap \cup GlobAllocs("allow_globs", att'.allow_globs)
            /\ ret' = 0
    /\ UNCHANGED <<pc, host, call, skel, cur_attacher, i, next_prog, next_fd, hist>>

mass_attacher__deny_glob(glob) ==
    /\ pc = "setup"
    /\ IF ~is_valid_glob(glob)
       THEN /\ ret' = -EINVAL
            /\ UNCHANGED <<att, heap, user_rules>>
       ELSE /\ user_rules < MaxUserGlobs
            /\ user_rules' = user_rules + 1
            /\ att' = [att EXCEPT !.deny_globs = append_glob(@, glob)]
            /\ heap' = heap \cup GlobAllocs("deny_globs", att'.deny_globs)
            /\ ret' = 0
    /\ UNCHANGED <<pc, host, call, skel, cur_attacher, i, next_prog, next_fd, hist>>

\* ------------------------------------------------------------------ prepare
Min(S) == CHOOSE x \in S : \A y \in S : x <= y

\* for (j = 0; j < cnt; j++) if (glob_matches(globs[j].glob, name)) ...: the
\* first matching rule (1-based), 0 when no rule matches
first_match(globs, name) ==
    LET M == {j \in 1..Len(globs) : glob_matches(globs[j].glob, name)} IN
    IF M = {} THEN 0 ELSE Min(M)

bump(globs, j) == [globs EXCEPT ![j].matches = @ + 1]

FilterResult(deny, allow, pass) ==
    [deny_globs |-> deny, allow_globs |-> allow, pass |-> pass]

\* as apply_globs, with the allow list consulted before the deny list
apply_globs_AllowFirst(deny, allow, name) ==
    LET d == first_match(deny, name)
        a == first_match(allow, name)
    IN  IF a # 0 THEN FilterResult(deny, bump(allow, a), TRUE)
        ELSE IF d # 0 THEN FilterResult(bump(deny, d), allow, FALSE)
        ELSE FilterResult(deny, allow, Len(allow) = 0)

\* as apply_globs, with a name that no allow rule matches let through
apply_globs_AllowIgnored(deny, allow, name) ==
    LET d == first_match(deny, name)
        a == first_match(allow, name)
    IN  IF d # 0 THEN FilterResult(bump(deny, d), allow, FALSE)
        ELSE IF a # 0 THEN FilterResult(deny, bump(allow, a), TRUE)
        ELSE FilterResult(deny, allow, TRUE)

\* as apply_globs, with the deny loop not left at its first match
RECURSIVE bump_all(_, _, _)
bump_all(globs, name, j) ==
    IF j > Len(globs) THEN globs
    ELSE bump_all(IF glob_matches(globs[j].glob, name) THEN bump(globs, j) ELSE globs,
                  name, j + 1)

apply_globs_BumpAll(deny, allow, name) ==
    LET d == first_match(deny, name)
        a == first_match(allow, name)
    IN  IF d # 0 THEN FilterResult(bump_all(deny, name, 1), allow, FALSE)
        ELSE IF Len(allow) # 0
             THEN IF a # 0 THEN FilterResult(deny, bump(allow, a), TRUE)
                  ELSE FilterResult(deny, allow, FALSE)
        ELSE FilterResult(deny, allow, TRUE)

\* the deny loop, the allow loop and the skip/proceed labels of prepare
apply_globs(deny, allow, name) ==
    LET d == first_match(deny, name)
        a == first_match(allow, name)
    IN  IF d # 0 THEN FilterResult(bump(deny, d), allow, FALSE)
        ELSE IF Len(allow) # 0
             THEN IF a # 0 THEN FilterResult(deny, bump(allow, a), TRUE)
                  ELSE FilterResult(deny, allow, FALSE)
        ELSE FilterResult(deny, allow, TRUE)

\* as limit_reached, with > for >=
limit_reached_OffByOne(max_func_cnt, func_cnt) ==
    max_func_cnt # 0 /\ func_cnt > max_func_cnt

\* att->max_func_cnt && att->func_cnt >= att->max_func_cnt
limit_reached(max_func_cnt, func_cnt) ==
    max_func_cnt # 0 /\ func_cnt >= max_func_cnt

\* att->func_filter && !att->func_filter(att, btf, i, func_name, att->func_cnt)
filter_rejects(func_filter, id, func_cnt) ==
    func_filter.set /\ <<id, func_cnt>> \in func_filter.rejects

\* as set_first_id, run after func_cnt++ instead of before it
set_first_id_OffByOne(ids, arg_cnt, func_cnt) ==
    IF ids[arg_cnt] = 0 THEN [ids EXCEPT ![arg_cnt] = func_cnt + 1] ELSE ids

\* if (!att->func_info_id_for_arg_cnt[arg_cnt]) ... = att->func_cnt;
set_first_id(ids, arg_cnt, func_cnt) ==
    IF ids[arg_cnt] = 0 THEN [ids EXCEPT ![arg_cnt] = func_cnt] ELSE ids

FuncInfo(ksym, arg_cnt, btf_id) ==
    [addr |-> ksym.addr, name |-> ksym.name, arg_cnt |-> arg_cnt, btf_id |-> btf_id,
     fentry_prog_fd |-> 0, fexit_prog_fd |-> 0]

\* the realloc, the finfo fill-in and the bucket accounting of an accepted function
add_func(a, ksym, arg_cnt, btf_id) ==
    [a EXCEPT !.func_infos = Append(@, FuncInfo(ksym, arg_cnt, btf_id)),
              !.func_info_cnts[arg_cnt] = @ + 1,
              !.func_info_id_for_arg_cnt = set_first_id(@, arg_cnt, a.func_cnt),
              !.func_cnt = @ + 1]

\* how the iteration of the type loop ends for FUNC type id
iter_outcome(a, id) ==
    LET t == btf__type_by_id(a.vmlinux_btf, id)
        ksym == ksyms__get_symbol(a.ksyms.syms, t.name)
    IN  IF ksym = NoKsym THEN "no_ksym"
        ELSE IF ~apply_globs(a.deny_globs, a.allow_globs, t.name).pass THEN "filtered"
        ELSE IF ~is_kprobe_ok(a.kprobes, t.name) THEN "no_kprobe"
        ELSE IF ~is_func_type_ok(a.vmlinux_btf, t) THEN "bad_type"
        ELSE IF limit_reached(a.max_func_cnt, a.func_cnt) THEN "break"
        ELSE IF filter_rejects(a.func_filter, id, a.func_cnt) THEN "user_filtered"
        ELSE "accept"

KprobeAllocs(kprobes) ==
    (IF Len(kprobes) > 0 THEN {<<"kprobes", 0>>} ELSE {}) \cup
    {<<"kprobes", j>> : j \in 1..Len(kprobes)}

PrepareFailures == {"none", "ksyms", "memlock", "nofile", "kprobes", "btf"}

\* mass_attacher__prepare up to the type loop; env names the step the host fails
prepare_begin(env) ==
    /\ pc = "setup"
    /\ LET a1 == [att EXCEPT !.ksyms = [loaded |-> TRUE, syms |-> host.kallsyms]]
           a2 == [a1 EXCEPT !.kprobes = load_available_kprobes(host.filter_functions)]
           a3 == [a2 EXCEPT !.fentries = [k \in Arities |-> Prog("fentry", k)],
                            !.fexits = [k \in Arities |-> Prog("fexit", k)]]
           a4 == [a3 EXCEPT !.vmlinux_btf = host.btf]
           h1 == heap \cup {<<"ksyms", 0>>}
           h2 == h1 \cup KprobeAllocs(a2.kprobes)
       IN  CASE env = "ksyms" ->
                  /\ ret' = -EINVAL /\ pc' = "prepare_failed" /\ UNCHANGED <<att, heap, i>>
             [] env \in {"memlock", "nofile", "kprobes"} ->
                  /\ ret' = -EPERM /\ pc' = "prepare_failed"
                  /\ att' = a1 /\ heap' = h1 /\ UNCHANGED i
             [] env = "btf" ->
                  /\ ret' = -EINVAL /\ pc' = "prepare_failed"
                  /\ att' = a3 /\ heap' = h2 /\ UNCHANGED i
             [] env = "none" ->
                  /\ pc' = "prepare_loop" /\ i' = 1
                  /\ att' = a4 /\ heap' = h2 \cup {<<"btf", 0>>} /\ UNCHANGED ret
    /\ UNCHANGED <<host, call, skel, cur_attacher, next_prog, next_fd, user_rules, hist>>

\* if (!btf_is_func(t)) continue: the next FUNC type from id on, 0 when none is left
next_func_id(btf, from) ==
    LET F == {id \in from..btf__get_nr_types(btf) : btf_is_func(btf__type_by_id(btf, id))} IN
    IF F = {} THEN 0 ELSE Min(F)

\* for (i = 1; i <= n; i++) in mass_attacher__prepare: the loop's run over the
\* types that are no functions and its iteration for the next FUNC type
prepare_iter ==
    /\ pc = "prepare_loop"
    /\ LET id == next_func_id(att.vmlinux_btf, i) IN
       IF id = 0
       THEN /\ pc' = "prepare_arm"
            /\ i' = btf__get_nr_types(att.vmlinux_btf) + 1
            /\ UNCHANGED <<att, heap, candidates, filter_calls>>
       ELSE LET t == btf__type_by_id(att.vmlinux_btf, id)
                ksym == ksyms__get_symbol(att.ksyms.syms, t.name)
                g == apply_globs(att.deny_globs, att.allow_globs, t.name)
                out == iter_outcome(att, id)
                a1 == IF out = "no_ksym" THEN att
                      ELSE [att EXCEPT !.deny_globs = g.deny_globs,
                                       !.allow_globs = g.allow_globs]
            IN  /\ att' = IF out = "accept"
                          THEN add_func(a1, ksym, func_arg_cnt(att.vmlinux_btf, id), id)
                          ELSE a1
                /\ heap' = IF out = "accept" THEN heap \cup {<<"func_infos", 0>>} ELSE heap
                /\ candidates' = IF out = "no_ksym" THEN candidates ELSE candidates + 1
                /\ filter_calls' =
                       IF out \in {"user_filtered", "accept"} /\ att.func_filter.set
                       THEN Append(filter_calls, <<id, t.name, att.func_cnt>>)
                       ELSE filter_calls
                /\ IF out = "break"
                   THEN pc' = "prepare_arm" /\ i' = id
                   ELSE IF next_func_id(att.vmlinux_btf, id + 1) = 0
                   THEN pc' = "prepare_arm" /\ i' = btf__get_nr_types(att.vmlinux_btf) + 1
                   ELSE pc' = pc /\ i' = id + 1
    /\ UNCHANGED <<host, call, skel, cur_attacher, next_prog, ret, next_fd, user_rules,
                   hook_calls, clone_calls, attach_calls>>

\* as arm_skel, with every arity armed whether or not it has entries
arm_skel_AllArities(sk, a) ==
    LET target(p) == a.func_infos[a.func_info_id_for_arg_cnt[p.n] + 1].name
    IN  [sk EXCEPT !.attach_target = [p \in Progs |-> target(p)],
                   !.prep = [p \in Progs |-> TRUE],
                   !.max_entries = a.func_cnt]

\* the arming loop over the arities, and bpf_map__set_max_entries
arm_skel(sk, a) ==
    LET armed(p) == a.func_info_cnts[p.n] # 0
        target(p) == a.func_infos[a.func_info_id_for_arg_cnt[p.n] + 1].name
    IN  [sk EXCEPT !.attach_target = [p \in Progs |-> IF armed(p) THEN target(p) ELSE @[p]],
                   !.prep = [p \in Progs |-> IF armed(p) THEN TRUE ELSE @[p]],
                   !.autoload = [p \in Progs |-> IF armed(p) THEN @[p] ELSE FALSE],
                   !.max_entries = a.func_cnt]

\* mass_attacher__prepare after the type loop
prepare_arm ==
    /\ pc = "prepare_arm"
    /\ IF att.func_cnt = 0
       THEN /\ ret' = -ENOENT /\ pc' = "prepare_failed" /\ UNCHANGED skel
       ELSE /\ skel' = arm_skel(skel, att) /\ ret' = 0 /\ pc' = "prepared"
    /\ UNCHANGED <<host, call, att, cur_attacher, i, next_prog, next_fd, user_rules, heap, hist>>

\* --------------------------------------------------------------------- load
\* the arity whose fentries/fexits slot holds p, -1 when there is none
prog_arg_cnt(a, p) ==
    LET M == {k \in Arities : a.fentries[k] = p \/ a.fexits[k] = p} IN
    IF M = {} THEN -1 ELSE Min(M)

\* as copy_insns, one instruction short
copy_insns_Short(insns, insns_cnt) ==
    [present |-> TRUE, insns |-> [j \in 1..(insns_cnt - 1) |-> insns[j]]]

\* malloc(sizeof(*insns) * insns_cnt) and memcpy of as many bytes
copy_insns(insns, insns_cnt) ==
    [present |-> TRUE, insns |-> [j \in 1..insns_cnt |-> insns[j]]]

\* as hijack_prog, without the test on the program's name
hijack_prog_NoFexit(a, prog, insns, insns_cnt) ==
    [a EXCEPT !.fentries_insns[prog_arg_cnt(a, prog)] = copy_insns(insns, insns_cnt)]

\* hijack_prog: the attacher after the prep hook ran for prog
hijack_prog(a, prog, insns, insns_cnt) ==
    LET arg_cnt == prog_arg_cnt(a, prog) IN
    IF name_is_fexit(prog)
    THEN [a EXCEPT !.fexits_insns[arg_cnt] = copy_insns(insns, insns_cnt)]
    ELSE [a EXCEPT !.fentries_insns[arg_cnt] = copy_insns(insns, insns_cnt)]

InsnsAllocs(a) ==
    {<<"fentries_insns", k>> : k \in {n \in Arities : a.fentries_insns[n].present}} \cup
    {<<"fexits_insns", k>> : k \in {n \in Arities : a.fexits_insns[n].present}}

\* cur_attacher = att; the template loader starts
load_begin ==
    /\ pc = "prepared"
    /\ cur_attacher' = TRUE
    /\ next_prog' = 1
    /\ pc' = "skel_load"
    /\ UNCHANGED <<host, call, att, skel, i, ret, next_fd, user_rules, heap, hist>>

PendingProgs == {k \in next_prog..Len(ProgOrder) : skel.autoload[ProgOrder[k]]}

\* SKEL_LOAD fails before it reaches the programs; cur_attacher = NULL; return err
skel_load_fail ==
    /\ pc = "skel_load"
    /\ next_prog = 1
    /\ cur_attacher' = FALSE
    /\ ret' = -EINVAL
    /\ pc' = "load_failed"
    /\ UNCHANGED <<host, call, att, skel, i, next_prog, next_fd, user_rules, heap, hist>>

\* SKEL_LOAD reaches the next program it has to load: the prep hook runs, and
\* in debug mode the prototype itself goes through the verifier (verified says
\* whether it passes); a prototype that fails ends SKEL_LOAD with an error
skel_load_prog(verified) ==
    /\ pc = "skel_load"
    /\ PendingProgs # {}
    /\ LET k == Min(PendingProgs)
           p == ProgOrder[k]
           insns == skel_insns(p)
           hooked == skel.prep[p]
           goes_to_kernel == ~hooked \/ att.debug
       IN  /\ verified \/ goes_to_kernel
           /\ att' = IF hooked THEN hijack_prog(att, p, insns, Len(insns)) ELSE att
           /\ heap' = heap \cup InsnsAllocs(att')
           /\ hook_calls' = IF hooked
                            THEN Append(hook_calls, [prog |-> p, insns |-> insns,
                                                     attacher |-> cur_attacher])
                            ELSE hook_calls
           /\ IF verified
              THEN /\ skel' = IF goes_to_kernel
                              THEN [skel EXCEPT !.loaded = @ \cup {p}] ELSE skel
                   /\ next_prog' = k + 1
                   /\ UNCHANGED <<pc, ret, cur_attacher>>
              ELSE /\ cur_attacher' = FALSE
                   /\ ret' = -EINVAL
                   /\ pc' = "load_failed"
                   /\ UNCHANGED <<skel, next_prog>>
    /\ UNCHANGED <<host, call, i, next_fd, user_rules, candidates, filter_calls,
                   clone_calls, attach_calls>>

\* as skel_load_done, with the thread-local pointer left as it is
skel_load_done_KeepPointer ==
    /\ pc = "skel_load"
    /\ PendingProgs = {}
    /\ i' = 0
    /\ pc' = "load_clone"
    /\ UNCHANGED <<host, call, att, skel, cur_attacher, next_prog, ret, next_fd, user_rules,
                   heap, hist>>

\* SKEL_LOAD returns 0; cur_attacher = NULL
skel_load_done ==
    /\ pc = "skel_load"
    /\ PendingProgs = {}
    /\ cur_attacher' = FALSE
    /\ i' = 0
    /\ pc' = "load_clone"
    /\ UNCHANGED <<host, call, att, skel, next_prog, ret, next_fd, user_rules, heap, hist>>

\* bpf_map_update_elem(map_fd, &func_addr, &i, 0): the map after the update,
\* or the map unchanged when it is full and the key is new
map_full(sk, key) ==
    /\ \A e \in sk.ip_to_id : e[1] # key
    /\ Cardinality(sk.ip_to_id) >= sk.max_entries

bpf_map_update_elem(sk, key, value) ==
    [sk EXCEPT !.ip_to_id = {e \in @ : e[1] # key} \cup {<<key, value>>}]

\* as clone_prog, with attr.attach_btf_id left as memset made it
clone_prog_NoTarget(prog, insns, insn_cnt, attach_btf_id) ==
    [prog_type |-> prog.kind,
     name |-> prog,
     insns |-> Take(insns, insn_cnt),
     license |-> "Dual BSD/GPL",
     attach_btf_id |-> 0]

\* clone_prog: the attributes it hands to bpf_load_program_xattr
clone_prog(prog, insns, insn_cnt, attach_btf_id) ==
    [prog_type |-> prog.kind,
     name |-> prog,
     insns |-> Take(insns, insn_cnt),
     license |-> "Dual BSD/GPL",
     attach_btf_id |-> attach_btf_id]

CloneCall(attr, fd) == [attr |-> attr, fd |-> fd]

LoadOutcomes == {"ok", "map", "fentry", "fexit"}

\* one iteration of for (i = 0; i < att->func_cnt; i++) in mass_attacher__load;
\* env names the kernel call that fails in it
load_func(env) ==
    /\ pc = "load_clone"
    /\ i < att.func_cnt
    /\ LET finfo == att.func_infos[i + 1]
           map_err == env = "map" \/ map_full(skel, finfo.addr)
           entry_attr == clone_prog(att.fentries[finfo.arg_cnt],
                                    att.fentries_insns[finfo.arg_cnt].insns,
                                    Len(att.fentries_insns[finfo.arg_cnt].insns),
                                    finfo.btf_id)
           exit_attr == clone_prog(att.fexits[finfo.arg_cnt],
                                   att.fexits_insns[finfo.arg_cnt].insns,
                                   Len(att.fexits_insns[finfo.arg_cnt].insns),
                                   finfo.btf_id)
       IN  IF map_err
           THEN /\ env \in {"map", "ok"}
                /\ ret' = -EPERM /\ pc' = "load_failed"
                /\ UNCHANGED <<att, skel, i, next_fd, clone_calls>>
           ELSE /\ skel' = bpf_map_update_elem(skel, finfo.addr, i)
                /\ CASE env = "fentry" ->
                          /\ clone_calls' = Append(clone_calls, CloneCall(entry_attr, -EPERM))
                          /\ ret' = -EPERM /\ pc' = "load_failed"
                          /\ UNCHANGED <<att, i, next_fd>>
                     [] env = "fexit" ->
                          /\ clone_calls' = clone_calls \o
                                 <<CloneCall(entry_attr, next_fd), CloneCall(exit_attr, -EPERM)>>
                          /\ att' = [att EXCEPT !.func_infos[i + 1].fentry_prog_fd = next_fd]
                          /\ next_fd' = next_fd + 1
                          /\ ret' = -EPERM /\ pc' = "load_failed"
                          /\ UNCHANGED i
                     [] OTHER ->
                          /\ clone_calls' = clone_calls \o
                                 <<CloneCall(entry_attr, next_fd), CloneCall(exit_attr, next_fd + 1)>>
                          /\ att' = [att EXCEPT !.func_infos[i + 1].fentry_prog_fd = next_fd,
                                                !.func_infos[i + 1].fexit_prog_fd = next_fd + 1]
                          /\ next_fd' = next_fd + 2
                          /\ i' = i + 1
                          /\ IF i + 1 < att.func_cnt
                             THEN UNCHANGED <<pc, ret>>
                             ELSE pc' = "loaded" /\ ret' = 0
    /\ UNCHANGED <<host, call, cur_attacher, next_prog, user_rules, heap, candidates,
                   filter_calls, hook_calls, attach_calls>>

\* --------------------------------------------------- attach, activate, free
RECURSIVE attach_fds(_)
attach_fds(infos) ==
    IF infos = <<>> THEN <<>>
    ELSE <<Head(infos).fentry_prog_fd, Head(infos).fexit_prog_fd>> \o attach_fds(Tail(infos))

\* the outcomes the kernel may give to the attempts of one attach (1-based
\* positions of the attempts it refuses)
AttachFailures == {{}, {1}, {2, 3}, 1..(2 * MaxFuncs)}

\* as attach_loop, with a refused attempt ending the loop and failing attach
attach_loop_FailFast(fds, failed) ==
    LET F == {k \in 1..Len(fds) : k \in failed}
        n == IF F = {} THEN Len(fds) ELSE Min(F)
    IN  [calls |-> [k \in 1..n |-> [fd |-> fds[k], err |-> IF k \in failed THEN -EPERM ELSE 0]],
         ret |-> IF F = {} THEN 0 ELSE -EPERM]

\* the loop of mass_attacher__attach: bpf_raw_tracepoint_open on each fd; an
\* attempt that fails only reaches stderr
attach_loop(fds, failed) ==
    [calls |-> [k \in 1..Len(fds) |->
                   [fd |-> fds[k], err |-> IF k \in failed THEN -EPERM ELSE 0]],
     ret |-> 0]

\* mass_attacher__attach; failed is the set of attempts the kernel refuses
mass_attacher__attach(failed) ==
    /\ pc = "loaded"
    /\ LET r == attach_loop(attach_fds(att.func_infos), failed) IN
       /\ attach_calls' = r.calls
       /\ ret' = r.ret
    /\ pc' = "attached"
    /\ UNCHANGED <<host, call, att, skel, cur_attacher, i, next_prog, next_fd, user_rules, heap,
                   candidates, filter_calls, hook_calls, clone_calls>>

\* as mass_attacher__activate, called as soon as prepare has returned
mass_attacher__activate_Early ==
    /\ pc \in {"prepared", "loaded", "attached"}
    /\ skel' = [skel EXCEPT !.ready = TRUE]
    /\ pc' = "active"
    /\ UNCHANGED <<host, call, att, cur_attacher, i, next_prog, ret, next_fd, user_rules, heap, hist>>

mass_attacher__activate ==
    /\ pc = "attached"
    /\ skel' = [skel EXCEPT !.ready = TRUE]
    /\ pc' = "active"
    /\ UNCHANGED <<host, call, att, cur_attacher, i, next_prog, ret, next_fd, user_rules, heap, hist>>

\* what mass_attacher__free releases
freed_allocs(a) ==
    {<<"ksyms", 0>>, <<"btf", 0>>, <<"func_infos", 0>>, <<"skel", 0>>, <<"att", 0>>}
        \cup KprobeAllocs(a.kprobes)
        \cup {<<"fentries_insns", k>> : k \in Arities}
        \cup {<<"fexits_insns", k>> : k \in Arities}

mass_attacher__free ==
    /\ pc \in {"setup", "prepare_failed", "prepared", "load_failed", "loaded",
               "attached", "active"}
    /\ skel' = [skel EXCEPT !.ready = FALSE]
    /\ heap' = heap \ freed_allocs(att)
    /\ pc' = "freed"
    /\ UNCHANGED <<host, call, att, cur_attacher, i, next_prog, ret, next_fd, user_rules, hist>>

\* ------------------------------------------------ helpers applied on their own
Seqs(S, n) == UNION {[1..k -> S] : k \in 0..n}

S_abc == <<"a", "b", "c">>
S_xyz == <<"x", "y", "z">>

\* valid globs: a body with a wildcard in front of it, behind it, both or none
GlobInputs ==
    {g \in {pre \o body \o post : pre \in {<<>>, <<"*">>},
                                  body \in Seqs({"a", "b"}, MaxGlobBody),
                                  post \in {<<>>, <<"*">>}} : is_valid_glob(g)}

StrInputs == Seqs({"a", "b", "*"}, MaxStrLen)

GlobCalls ==
    {<<g, s>> : g \in GlobInputs, s \in StrInputs} \cup
    {<<<<"*">> \o S_abc \o <<"*">>, <<"x", "x">> \o S_abc \o <<"y", "y">>>>,
     <<<<"*">> \o S_abc \o <<"*">>, <<"a", "b">> \o S_abc>>,
     <<<<"*">> \o S_abc \o <<"*">>, <<"a", "b">>>>,
     <<<<"*">> \o S_xyz, S_xyz \o <<"w">>>>,
     <<<<"*">> \o S_xyz, <<"w">> \o S_xyz>>,
     <<S_abc, S_abc \o <<"d">>>>,
     <<S_abc, S_abc>>}

\* a type database with a type of every kind the ABI check tells apart, and
\* modifier and typedef chains in front of them
ZooTypes == <<
    BtfType("INT", <<"i">>, 0, <<>>),
    BtfType("ENUM", <<"e">>, 0, <<>>),
    BtfType("STRUCT", <<"s">>, 0, <<>>),
    BtfType("UNION", <<"u">>, 0, <<>>),
    BtfType("PTR", <<>>, 0, <<>>),
    BtfType("PTR", <<>>, 3, <<>>),
    BtfType("PTR", <<>>, 4, <<>>),
    BtfType("PTR", <<>>, 1, <<>>),
    BtfType("CONST", <<>>, 3, <<>>),
    BtfType("PTR", <<>>, 9, <<>>),
    BtfType("TYPEDEF", <<"t">>, 3, <<>>),
    BtfType("PTR", <<>>, 11, <<>>),
    BtfType("CONST", <<>>, 0, <<>>),
    BtfType("PTR", <<>>, 13, <<>>),
    BtfType("TYPEDEF", <<"t">>, 1, <<>>),
    BtfType("VOLATILE", <<>>, 15, <<>>),
    BtfType("TYPEDEF", <<"t">>, 6, <<>>),
    BtfType("FLOAT", <<"f">>, 0, <<>>),
    BtfType("ARRAY", <<>>, 1, <<>>),
    BtfType("PTR", <<>>, 6, <<>>),
    BtfType("CONST", <<>>, 2, <<>>),
    BtfType("RESTRICT", <<>>, 5, <<>>),
    BtfType("FUNC_PROTO", <<>>, 1, <<>>),
    BtfType("PTR", <<>>, 23, <<>>) >>

ZooParamTypes == {0, 1, 3, 5, 9, 10, 16, 18}

\* [ret, params] of the prototypes the ABI check is applied to
ProtoInputs ==
    {[ret |-> r, params |-> ps] :
        r \in 0..Len(ZooTypes),
        ps \in Seqs(ZooParamTypes, MaxParams) \cup
               {[k \in 1..MAX_FUNC_ARG_CNT |-> 1], [k \in 1..(MAX_FUNC_ARG_CNT + 1) |-> 1]}}

\* the type database of a prototype: the zoo, the prototype and its function
ZooBtf(p) ==
    ZooTypes \o <<BtfType("FUNC_PROTO", <<>>, p.ret, p.params),
                  BtfType("FUNC", <<"f">>, Len(ZooTypes) + 1, <<>>)>>

PureInit ==
    /\ pc = "pure"
    /\ host = [btf |-> <<>>, kallsyms |-> {}, filter_functions |-> <<>>]
    /\ att = AttZero
    /\ skel = SkelInit
    /\ cur_attacher = FALSE
    /\ i = 0
    /\ next_prog = 1
    /\ ret = 0
    /\ next_fd = 3
    /\ user_rules = 0
    /\ heap = {}
    /\ candidates = 0
    /\ filter_calls = <<>>
    /\ hook_calls = <<>>
    /\ clone_calls = <<>>
    /\ attach_calls = <<>>
    /\ call \in {[NoCall EXCEPT !.fn = "glob_matches", !.glob = x[1], !.s = x[2]] :
                    x \in GlobCalls} \cup
                {[NoCall EXCEPT !.fn = "is_func_type_ok", !.proto = p] : p \in ProtoInputs}

MainVars == <<pc, host, att, skel, cur_attacher, i, next_prog, ret, next_fd, user_rules,
              heap, hist>>

apply_glob_matches ==
    /\ call.fn = "glob_matches" /\ ~call.done
    /\ call' = [call EXCEPT !.done = TRUE, !.out = glob_matches(call.glob, call.s)]
    /\ UNCHANGED MainVars

apply_is_func_type_ok ==
    /\ call.fn = "is_func_type_ok" /\ ~call.done
    /\ call' = [call EXCEPT !.done = TRUE, !.out =
                   LET btf == ZooBtf(call.proto) IN is_func_type_ok(btf, btf[Len(btf)])]
    /\ UNCHANGED MainVars

PureNext ==
    \/ apply_glob_matches
    \/ apply_is_func_type_ok

PureSpec == PureInit /\ [][PureNext]_vars

\* ------------------------------------------- the strip loop, step by step
\* type databases of MaxChain types, each an int, a struct, or a pointer, a
\* const or a typedef of any type of the database or of void; the chains of
\* such a database may be cyclic
ChainTypes ==
    {BtfType("INT", <<"i">>, 0, <<>>), BtfType("STRUCT", <<"s">>, 0, <<>>)} \cup
    {BtfType(kind, <<>>, to, <<>>) : kind \in {"PTR", "CONST", "TYPEDEF"}, to \in 0..MaxChain}

ChainBtfs == [1..MaxChain -> ChainTypes]

StripInit ==
    /\ pc = "pure"
    /\ host \in {[btf |-> b, kallsyms |-> {}, filter_functions |-> <<>>] : b \in ChainBtfs}
    /\ att = AttZero
    /\ skel = SkelInit
    /\ cur_attacher = FALSE
    /\ i = 0
    /\ next_prog = 1
    /\ ret = 0
    /\ next_fd = 3
    /\ user_rules = 0
    /\ heap = {}
    /\ candidates = 0
    /\ filter_calls = <<>>
    /\ hook_calls = <<>>
    /\ clone_calls = <<>>
    /\ attach_calls = <<>>
    /\ call \in {[NoCall EXCEPT !.fn = fn, !.t = t] :
                    fn \in {"is_arg_type_ok", "is_ret_type_ok"}, t \in 1..MaxChain}

\* one turn of while (btf_is_mod(t) || btf_is_typedef(t)) t = btf__type_by_id(btf, t->type);
\* turn is the parity of the turns taken, so that a turn that leaves t where it
\* was (a type that refers to itself) is a step like any other
strip_step ==
    /\ call.fn \in {"is_arg_type_ok", "is_ret_type_ok"} /\ ~call.done
    /\ LET t == btf__type_by_id(host.btf, call.t) IN
       /\ btf_is_mod(t) \/ btf_is_typedef(t)
       /\ call' = [call EXCEPT !.t = t.type, !.turn = 1 - @]
    /\ UNCHANGED MainVars

\* the loop is left: the rest of is_arg_type_ok or is_ret_type_ok, and its return
strip_return ==
    /\ call.fn \in {"is_arg_type_ok", "is_ret_type_ok"} /\ ~call.done
    /\ LET t == btf__type_by_id(host.btf, call.t) IN
       /\ ~(btf_is_mod(t) \/ btf_is_typedef(t))
       /\ call' = [call EXCEPT !.done = TRUE,
                               !.out = IF call.fn = "is_arg_type_ok"
                                       THEN is_arg_type_ok(host.btf, t)
                                       ELSE is_ret_type_ok(host.btf, t)]
    /\ UNCHANGED MainVars

StripNext ==
    \/ strip_step
    \/ strip_return

\* the check runs on the one thread of prepare: a step it can take, it takes
StripSpec == StripInit /\ [][StripNext]_vars /\ WF_vars(StripNext)

\* ------------------------------------------------------ rule additions alone
\* every char* a caller may hand to allow_glob/deny_glob, up to a length
AllGlobArgs == {NULL} \cup Seqs({"a", "b", "*"}, MaxGlobBody)

\* the attacher as mass_attacher__new returns it
RulesInit ==
    /\ pc = "setup"
    /\ host = [btf |-> <<>>, kallsyms |-> {}, filter_functions |-> <<>>]
    /\ \E opts \in {NoOpts, [NoOpts EXCEPT !.null = FALSE]} :
          /\ att = new_attacher(opts)
          /\ heap = {<<"skel", 0>>, <<"att", 0>>}
                        \cup GlobAllocs("deny_globs", new_attacher(opts).deny_globs)
    /\ skel = SkelInit
    /\ cur_attacher = FALSE
    /\ i = 0
    /\ next_prog = 1
    /\ ret = 0
    /\ next_fd = 3
    /\ user_rules = 0
    /\ candidates = 0
    /\ filter_calls = <<>>
    /\ hook_calls = <<>>
    /\ clone_calls = <<>>
    /\ attach_calls = <<>>
    /\ call = NoCall

RulesNext ==
    \/ \E glob \in AllGlobArgs : mass_attacher__allow_glob(glob)
    \/ \E glob \in AllGlobArgs : mass_attacher__deny_glob(glob)

RulesSpec == RulesInit /\ [][RulesNext]_vars

\* --------------------------------------------------------- the caller's runs
Next ==
    \/ \E has_skel \in BOOLEAN, opts \in OptsChoices : mass_attacher__new(has_skel, opts)
    \/ \E glob \in GlobArgs : mass_attacher__allow_glob(glob)
    \/ \E glob \in GlobArgs : mass_attacher__deny_glob(glob)
    \/ \E env \in PrepareFailures : prepare_begin(env)
    \/ prepare_iter
    \/ prepare_arm
    \/ load_begin
    \/ skel_load_fail
    \/ \E verified \in BOOLEAN : skel_load_prog(verified)
    \/ skel_load_done
    \/ \E env \in LoadOutcomes : load_func(env)
    \/ \E failed \in AttachFailures : mass_attacher__attach(failed)
    \/ mass_attacher__activate
    \/ mass_attacher__free

Spec == Init /\ [][Next]_vars

\* ------------------------------------------------------------------ claims
Entries == {att.func_infos[e] : e \in 1..Len(att.func_infos)}
EntryIds == {att.func_infos[e].btf_id : e \in 1..Len(att.func_infos)}
FuncIds == {id \in 1..Len(att.vmlinux_btf) : btf_is_func(att.vmlinux_btf[id])}
FuncName(id) == att.vmlinux_btf[id].name

DenyMatches(name) ==
    \E j \in 1..Len(att.deny_globs) : glob_matches(att.deny_globs[j].glob, name)
AllowMatches(name) ==
    \E j \in 1..Len(att.allow_globs) : glob_matches(att.allow_globs[j].glob, name)
HasSymbol(name) == \E r \in att.ksyms.syms : r.name = name
Traceable(name) == \E j \in 1..Len(att.kprobes) : att.kprobes[j] = name
AbiOk(id) == is_func_type_ok(att.vmlinux_btf, att.vmlinux_btf[id])

\* entries accepted before the loop reached type id
CountBefore(id) == Cardinality({e \in Entries : e.btf_id < id})

\* the type loop has gone past type id
Evaluated(id) == pc \in {"prepare_loop", "prepare_arm", "prepared"} /\ id < i

PlanDone == pc \in {"prepare_arm", "prepared"}

\* C1: deny always wins: no attach entry ever has a name that a rule of the
\* deny list matches, whatever the allow list holds.
C1_DenyAlwaysWins ==
    \A e \in Entries : ~DenyMatches(e.name)

\* a function that is attachable and matched by an allow rule and by a deny
\* rule has been evaluated and is no attach entry
C1_Witness ==
    /\ pc = "prepared"
    /\ \E id \in FuncIds :
          /\ HasSymbol(FuncName(id)) /\ Traceable(FuncName(id)) /\ AbiOk(id)
          /\ DenyMatches(FuncName(id)) /\ AllowMatches(FuncName(id))
          /\ id \notin EntryIds

\* C2: every attacher new returns holds the ten enforced deny patterns at the
\* head of its deny list, in the listed order, so no function an enforced deny
\* matches is ever planned.
C2_EnforcedDeniesInstalled ==
    pc \notin {"start", "no_attacher"} =>
        /\ Len(att.deny_globs) >= Len(enforced_deny_globs)
        /\ \A j \in 1..Len(enforced_deny_globs) :
              att.deny_globs[j].glob = enforced_deny_globs[j]
        /\ \A e \in Entries, j \in 1..Len(enforced_deny_globs) :
              ~glob_matches(enforced_deny_globs[j], e.name)

\* C3: a candidate no deny rule matches passes the filter iff the allow list is
\* empty or one of its rules matches; so a function that has a symbol, is
\* traceable, passes the ABI check and the user predicate and is within
\* max_func_cnt is an attach entry iff the allow list is empty or matches it.
C3_AllowDecides ==
    \A id \in FuncIds :
        ( /\ Evaluated(id)
          /\ HasSymbol(FuncName(id))
          /\ ~DenyMatches(FuncName(id))
          /\ Traceable(FuncName(id))
          /\ AbiOk(id)
          /\ ~filter_rejects(att.func_filter, id, CountBefore(id))
          /\ (att.max_func_cnt = 0 \/ CountBefore(id) < att.max_func_cnt) )
        => (id \in EntryIds <=> (Len(att.allow_globs) = 0 \/ AllowMatches(FuncName(id))))

\* with an allow list that matches one attachable function and not another,
\* the first is planned and the second is not
C3_Witness ==
    /\ pc = "prepared"
    /\ Len(att.allow_globs) > 0
    /\ \E id1, id2 \in FuncIds :
          /\ id1 \in EntryIds /\ AllowMatches(FuncName(id1))
          /\ id2 \notin EntryIds /\ ~AllowMatches(FuncName(id2))
          /\ HasSymbol(FuncName(id2)) /\ Traceable(FuncName(id2)) /\ AbiOk(id2)
          /\ ~DenyMatches(FuncName(id2)) /\ Evaluated(id2)

RECURSIVE SumMatches(_)
SumMatches(globs) ==
    IF globs = <<>> THEN 0 ELSE Head(globs).matches + SumMatches(Tail(globs))

\* the first rule of globs, in insertion order, that matches name (0: none)
FirstRule(globs, name) ==
    IF \E j \in 1..Len(globs) : glob_matches(globs[j].glob, name)
    THEN CHOOSE j \in 1..Len(globs) :
            /\ glob_matches(globs[j].glob, name)
            /\ \A k \in 1..(j - 1) : ~glob_matches(globs[k].glob, name)
    ELSE 0

\* the FUNC type the type loop evaluates next
CandId == CHOOSE id \in FuncIds : id >= i /\ \A other \in FuncIds : other >= i => id <= other

C4_Sum ==
    SumMatches(att.deny_globs) + SumMatches(att.allow_globs) <= candidates

C4_Step ==
    pc = "prepare_loop" =>
        IF candidates' = candidates
        THEN att'.deny_globs = att.deny_globs /\ att'.allow_globs = att.allow_globs
        ELSE LET name == FuncName(CandId)
                 d == FirstRule(att.deny_globs, name)
                 a == IF d # 0 THEN 0 ELSE FirstRule(att.allow_globs, name)
             IN  /\ candidates' = candidates + 1
                 /\ att'.deny_globs =
                        [j \in 1..Len(att.deny_globs) |->
                            [att.deny_globs[j] EXCEPT !.matches = @ + (IF j = d THEN 1 ELSE 0)]]
                 /\ att'.allow_globs =
                        [j \in 1..Len(att.allow_globs) |->
                            [att.allow_globs[j] EXCEPT !.matches = @ + (IF j = a THEN 1 ELSE 0)]]

\* C4: match accounting: a candidate name increments one rule counter at most,
\* that of the first deny rule that matches it and otherwise that of the first
\* allow rule that matches it, so the counters sum to at most the number of
\* candidate names, and a rule's counter moves independently of another rule
\* with the same pattern.
C4_MatchAccounting == [](C4_Sum) /\ [][C4_Step]_vars

\* two deny rules with the same pattern, of which the first has counted
\* matches and the second has counted none
C4_Witness ==
    /\ PlanDone
    /\ \E j, k \in 1..Len(att.deny_globs) :
          /\ j < k /\ att.deny_globs[j].glob = att.deny_globs[k].glob
          /\ att.deny_globs[j].matches = 2 /\ att.deny_globs[k].matches = 0
    /\ candidates > 2

\* C5: every attach entry's name has a record in the symbol index, the entry's
\* address is that record's, the name is in the traceable-name list, and the
\* entry's function type passes the ABI check, during prepare and after it.
C5_PlanningInvariant ==
    \A e \in Entries :
        /\ \E r \in att.ksyms.syms : r.name = e.name /\ r.addr = e.addr
        /\ Traceable(e.name)
        /\ e.btf_id \in FuncIds /\ FuncName(e.btf_id) = e.name
        /\ AbiOk(e.btf_id)

\* a function that no rule keeps out and that is not traceable has been
\* evaluated and left out, next to a function that was planned
C5_Witness ==
    /\ pc = "prepared"
    /\ Entries # {}
    /\ \E id \in FuncIds :
          /\ Evaluated(id) /\ id \notin EntryIds
          /\ HasSymbol(FuncName(id)) /\ ~Traceable(FuncName(id))
          /\ ~DenyMatches(FuncName(id))
          /\ Len(att.allow_globs) = 0

\* C6: for every arity k with a bucket count above 0, func_info_id_for_arg_cnt[k]
\* is the index of an attach entry of arity k, and after prepare the arity-k
\* entry and exit programs are armed with that entry's name.
C6_FirstIndexHasArity ==
    \A k \in Arities :
        att.func_info_cnts[k] > 0 =>
            /\ att.func_info_id_for_arg_cnt[k] < Len(att.func_infos)
            /\ att.func_infos[att.func_info_id_for_arg_cnt[k] + 1].arg_cnt = k
            /\ pc \in {"prepared", "skel_load", "load_clone", "loaded", "attached", "active"} =>
                  \A kind \in {"fentry", "fexit"} :
                      /\ skel.prep[Prog(kind, k)]
                      /\ \E e \in Entries :
                            e.arg_cnt = k /\ skel.attach_target[Prog(kind, k)] = e.name

\* the entry at index 0 and a later entry share an arity, and another arity
\* is planned as well
C6_Witness ==
    /\ pc = "prepared"
    /\ Len(att.func_infos) = 3
    /\ att.func_infos[1].arg_cnt = att.func_infos[3].arg_cnt
    /\ att.func_infos[2].arg_cnt # att.func_infos[1].arg_cnt

\* every gate of the type loop but the limit, for the function of type id
\* met when count functions had been accepted
PassesGates(id, count) ==
    /\ HasSymbol(FuncName(id))
    /\ ~DenyMatches(FuncName(id))
    /\ Len(att.allow_globs) = 0 \/ AllowMatches(FuncName(id))
    /\ Traceable(FuncName(id))
    /\ AbiOk(id)
    /\ ~filter_rejects(att.func_filter, id, count)

\* C7: with max_func_cnt = m > 0 func_cnt never exceeds m; after prepare the
\* attach entries are the first functions, in type-id order, that pass every
\* gate, up to m of them (all of them when m = 0); type ids grow with the index.
C7_MaxFuncCnt ==
    /\ att.max_func_cnt > 0 => att.func_cnt <= att.max_func_cnt
    /\ att.func_cnt = Len(att.func_infos)
    /\ \A e1, e2 \in 1..Len(att.func_infos) :
          e1 < e2 => att.func_infos[e1].btf_id < att.func_infos[e2].btf_id
    /\ PlanDone =>
          \A id \in FuncIds :
              id \in EntryIds <=>
                  /\ PassesGates(id, CountBefore(id))
                  /\ att.max_func_cnt = 0 \/ CountBefore(id) < att.max_func_cnt

\* max_func_cnt = 2 has cut the plan: a third function passes every gate and
\* is no entry
C7_Witness ==
    /\ pc = "prepared"
    /\ att.max_func_cnt = 2 /\ att.func_cnt = 2
    /\ \E id \in FuncIds : id \notin EntryIds /\ PassesGates(id, 2)

HookCalls(p) == {k \in 1..Len(hook_calls) : hook_calls[k].prog = p}
CloneCalls == {clone_calls[c] : c \in 1..Len(clone_calls)}
SkelLoaded == pc \in {"load_clone", "loaded", "attached", "active"}
LoadDone == pc \in {"loaded", "attached", "active"}
Captured(p) == IF p.kind = "fentry" THEN att.fentries_insns[p.n] ELSE att.fexits_insns[p.n]

C8_Capture ==
    /\ \A p \in Progs :
          /\ Cardinality(HookCalls(p)) <= 1
          /\ HookCalls(p) # {} => skel.autoload[p] /\ att.func_info_cnts[p.n] > 0
          /\ SkelLoaded => (HookCalls(p) # {} <=> att.func_info_cnts[p.n] > 0)
          /\ Captured(p).present <=> HookCalls(p) # {}
          /\ \A k \in HookCalls(p) :
                /\ Len(Captured(p).insns) = Len(hook_calls[k].insns)
                /\ \A j \in 1..Len(hook_calls[k].insns) :
                      Captured(p).insns[j] = hook_calls[k].insns[j]
    /\ \A c \in CloneCalls :
          /\ Captured(c.attr.name).present
          /\ c.attr.insns = Captured(c.attr.name).insns
          /\ \E e \in Entries : e.arg_cnt = c.attr.name.n /\ e.btf_id = c.attr.attach_btf_id

C8_WriteOnce ==
    \A k \in Arities :
        /\ att.fentries_insns[k].present => att'.fentries_insns[k] = att.fentries_insns[k]
        /\ att.fexits_insns[k].present => att'.fexits_insns[k] = att.fexits_insns[k]

\* C8: capture protocol: the prep hook runs once for each armed template program
\* of a load that succeeds (never twice, never for a disabled program); the
\* buffer captured for a program has the length and the content of the bytecode
\* handed to the hook, is not modified once written, and every clone of an
\* entry of arity k is made from the buffer captured for arity k.
C8_CaptureProtocol == [](C8_Capture) /\ [][C8_WriteOnce]_vars

\* a load has cloned two entries of one arity and one entry of another
C8_Witness ==
    /\ pc = "loaded"
    /\ Len(hook_calls) = 4
    /\ Len(clone_calls) = 6

\* C9: in a successful load clone is called exactly 2 x func_count times, and
\* each call supplies a distinct attach_target_id drawn from the entries' type ids.
C9_DistinctTargets ==
    LoadDone =>
        /\ Len(clone_calls) = 2 * att.func_cnt
        /\ \A c \in CloneCalls : c.attr.attach_btf_id \in EntryIds
        /\ \A c1, c2 \in 1..Len(clone_calls) :
              c1 # c2 => clone_calls[c1].attr.attach_btf_id # clone_calls[c2].attr.attach_btf_id

\* C9 as amended: in a successful load clone is called exactly 2 x func_count
\* times, each call supplies the type id of an attach entry, and each entry's
\* type id is supplied by exactly two calls, the clone of its entry program and
\* the clone of its exit program; different entries supply different ids.
C9_TargetsPerEntry ==
    LoadDone =>
        /\ Len(clone_calls) = 2 * att.func_cnt
        /\ \A c \in CloneCalls : c.attr.attach_btf_id \in EntryIds
        /\ \A e \in 1..Len(att.func_infos) :
              LET mine == {c \in 1..Len(clone_calls) :
                              clone_calls[c].attr.attach_btf_id = att.func_infos[e].btf_id}
              IN  /\ Cardinality(mine) = 2
                  /\ {clone_calls[c].attr.prog_type : c \in mine} = {"fentry", "fexit"}
        /\ \A e1, e2 \in 1..Len(att.func_infos) :
              e1 # e2 => att.func_infos[e1].btf_id # att.func_infos[e2].btf_id

\* a load of two entries or more has succeeded
C9_Witness ==
    /\ pc = "loaded"
    /\ att.func_cnt >= 2
    /\ Len(clone_calls) = 2 * att.func_cnt

\* the clone call that returned fd is the only one that did, and it cloned
\* prog's captured bytecode for the function of type btf_id
ClonedFrom(fd, prog, btf_id) ==
    /\ fd > 0
    /\ Cardinality({c \in 1..Len(clone_calls) : clone_calls[c].fd = fd}) = 1
    /\ \A c \in CloneCalls :
          c.fd = fd =>
              /\ c.attr.name = prog
              /\ c.attr.prog_type = prog.kind
              /\ Captured(prog).present
              /\ c.attr.insns = Captured(prog).insns
              /\ c.attr.insns = skel_insns(prog)
              /\ c.attr.attach_btf_id = btf_id

\* C10: when load returns success every attach entry has its entry fd and its
\* exit fd set, the first made by a clone of its arity's captured entry
\* bytecode and the second by a clone of its arity's captured exit bytecode,
\* both with the entry's own type id as attach target.
C10_LoadPostcondition ==
    LoadDone =>
        /\ ret = 0 \/ pc # "loaded"
        /\ \A e \in Entries :
              /\ ClonedFrom(e.fentry_prog_fd, Prog("fentry", e.arg_cnt), e.btf_id)
              /\ ClonedFrom(e.fexit_prog_fd, Prog("fexit", e.arg_cnt), e.btf_id)
              /\ e.fentry_prog_fd # e.fexit_prog_fd

\* two entries of one arity are loaded, the second of which is not the one
\* the template programs were armed with
C10_Witness ==
    /\ pc = "loaded"
    /\ \E e1, e2 \in 1..Len(att.func_infos) :
          /\ e1 < e2
          /\ att.func_infos[e1].arg_cnt = att.func_infos[e2].arg_cnt
          /\ att.func_info_id_for_arg_cnt[att.func_infos[e2].arg_cnt] # e2 - 1
          /\ att.func_infos[e2].fexit_prog_fd > 0

Attached == pc \in {"attached", "active"}

C11_Attempts ==
    Attached =>
        /\ Len(attach_calls) = 2 * att.func_cnt
        /\ \A e \in 1..Len(att.func_infos) :
              /\ attach_calls[2 * e - 1].fd = att.func_infos[e].fentry_prog_fd
              /\ attach_calls[2 * e].fd = att.func_infos[e].fexit_prog_fd
        /\ pc = "attached" => ret = 0

C11_Step ==
    pc = "loaded" /\ pc' = "attached" => att' = att

\* C11: attach is permissive: whichever raw-tracepoint-open attempts fail, attach
\* attempts the entry fd and then the exit fd of every attach entry in entry
\* order (2 x func_cnt attempts), changes no attach entry and returns 0.
C11_AttachPermissive == [](C11_Attempts) /\ [][C11_Step]_vars

\* attach has returned after the kernel refused its second and third attempts
\* and took the fourth
C11_Witness ==
    /\ pc = "attached"
    /\ att.func_cnt >= 2
    /\ attach_calls[2].err < 0 /\ attach_calls[3].err < 0 /\ attach_calls[4].err = 0

\* the ip_to_id map holds a value under the address of every attach entry
MapWritten == \A e \in Entries : \E m \in skel.ip_to_id : m[1] = e.addr

\* C12: activation ordering: whenever the template's ready flag is true, load
\* has written the ip_to_id element of every attach entry and attach has run
\* for every entry; the flag is false from new until activate and after free.
C12_ActivationOrdering ==
    /\ skel.ready =>
          /\ pc = "active"
          /\ MapWritten
          /\ Cardinality(skel.ip_to_id) <= skel.max_entries
          /\ Len(attach_calls) = 2 * att.func_cnt
          /\ att.func_cnt > 0
    /\ pc = "active" => skel.ready
    /\ pc = "freed" => ~skel.ready

\* the attacher is active with two entries or more, some attach attempt refused
C12_Witness ==
    /\ pc = "active"
    /\ skel.ready
    /\ att.func_cnt >= 2
    /\ \E k \in 1..Len(attach_calls) : attach_calls[k].err < 0

\* C13: teardown: free, called from any phase, clears the ready flag and
\* releases every resource the attacher holds, the allow and deny rules and
\* their pattern strings included; no attacher-owned allocation remains.
C13_FreeReleasesAll ==
    pc = "freed" => ~skel.ready /\ heap = {}

Contains(s, sub) == \E k \in 0..(Len(s) - Len(sub)) : \A j \in 1..Len(sub) : s[k + j] = sub[j]
EndsWith(s, sub) == Len(sub) <= Len(s) /\ \A j \in 1..Len(sub) : s[Len(s) - Len(sub) + j] = sub[j]
StartsWith(s, sub) == Len(sub) <= Len(s) /\ \A j \in 1..Len(sub) : s[j] = sub[j]

\* the four pattern forms of the glob engine
GlobReference(g, s) ==
    LET n == Len(g) IN
    IF g = <<"*">> THEN TRUE
    ELSE IF g[1] = "*" /\ g[n] = "*" THEN Contains(s, SubSeq(g, 2, n - 1))
    ELSE IF g[1] = "*" THEN EndsWith(s, SubSeq(g, 2, n))
    ELSE IF g[n] = "*" THEN StartsWith(s, SubSeq(g, 1, n - 1))
    ELSE s = g

GlobCallDone == call.fn = "glob_matches" /\ call.done

\* C14: for every valid pattern g and every string s, the empty string included,
\* glob_matches(g, s) is: true for "*"; s contains the body for "*body*"; s ends
\* with the body for "*body"; s starts with the body for "body*"; s equals g
\* otherwise.  matches("*abc*", "ababc") is true, matches("*xyz", "xyzw") and
\* matches("abc", "abcd") are false.
C14_GlobMatchesReference ==
    GlobCallDone =>
        /\ call.out = GlobReference(call.glob, call.s)
        /\ call.glob = <<"*">> \o S_abc \o <<"*">> /\ call.s = <<"a", "b">> \o S_abc => call.out = TRUE
        /\ call.glob = <<"*">> \o S_xyz /\ call.s = S_xyz \o <<"w">> => call.out = FALSE
        /\ call.glob = S_abc /\ call.s = S_abc \o <<"d">> => call.out = FALSE

\* a suffix glob has been matched against a string that starts with its body
\* and does not end with it
C14_Witness ==
    /\ GlobCallDone
    /\ call.glob = <<"*", "a", "b">>
    /\ call.s = <<"a", "b", "a">>
    /\ call.out = FALSE

\* the patterns the rule lists refuse: null, empty, a '*' that is neither the
\* first nor the last character, and "**"
InvalidPattern(g) ==
    \/ g = NULL
    \/ g = <<>>
    \/ \E k \in 2..(Len(g) - 1) : g[k] = "*"
    \/ g = <<"*", "*">>

\* a call of allow_glob or deny_glob has refused its pattern
RuleRefused ==
    /\ ret' = -EINVAL
    /\ att' = att

\* a call has appended one rule with a zero counter for glob to the one list
\* and left the other list and the rules before it as they were
RuleAppended(glob, before, after, other_before, other_after) ==
    /\ ret' = 0
    /\ Len(after) = Len(before) + 1
    /\ after[Len(after)] = [glob |-> glob, matches |-> 0]
    /\ \A j \in 1..Len(before) : after[j] = before[j]
    /\ other_after = other_before

C15_Step ==
    /\ \A glob \in AllGlobArgs :
          mass_attacher__allow_glob(glob) =>
              IF InvalidPattern(glob) THEN RuleRefused
              ELSE RuleAppended(glob, att.allow_globs, att'.allow_globs,
                                att.deny_globs, att'.deny_globs)
    /\ \A glob \in AllGlobArgs :
          mass_attacher__deny_glob(glob) =>
              IF InvalidPattern(glob) THEN RuleRefused
              ELSE RuleAppended(glob, att.deny_globs, att'.deny_globs,
                                att.allow_globs, att'.allow_globs)

\* C15: allow_glob and deny_glob refuse exactly the patterns that are null,
\* empty, hold a '*' at an interior position or are "**": the call returns
\* -EINVAL and both rule lists are unchanged; for any other pattern the call
\* appends one rule with a zero counter at the end of its own list and leaves
\* the other list and the existing rules unchanged.
C15_RuleValidation == [][C15_Step]_vars

\* a deny rule "*" and an allow rule "a*" were added, and a call with an
\* invalid pattern has been refused since
C15_Witness ==
    /\ ret = -EINVAL
    /\ Len(att.allow_globs) = 1 /\ att.allow_globs[1].glob = <<"a", "*">>
    /\ Len(att.deny_globs) > 0
    /\ att.deny_globs[Len(att.deny_globs)].glob = <<"*">>

\* the type a modifier/typedef chain that starts at type id ends in (0: void)
RECURSIVE Underlying(_, _)
Underlying(btf, id) ==
    IF id # 0 /\ btf[id].kind \in {"VOLATILE", "CONST", "RESTRICT", "TYPEDEF"}
    THEN Underlying(btf, btf[id].type)
    ELSE id

KindOf(btf, id) == IF id = 0 THEN "VOID" ELSE btf[id].kind

\* the ABI check as the specification words it: kinds are those of the
\* underlying types, of a returned pointer's target too
AbiReference(btf, proto) ==
    LET r == Underlying(btf, proto.type) IN
    /\ Len(proto.params) <= MAX_FUNC_ARG_CNT
    /\ proto.type # 0
    /\ \/ KindOf(btf, r) \in {"INT", "ENUM"}
       \/ /\ KindOf(btf, r) = "PTR"
          /\ KindOf(btf, Underlying(btf, btf[r].type)) \in {"VOID", "STRUCT", "UNION"}
    /\ \A k \in 1..Len(proto.params) :
          /\ proto.params[k] # 0
          /\ KindOf(btf, Underlying(btf, proto.params[k])) \in {"INT", "PTR", "ENUM"}

TypeCallDone == call.fn = "is_func_type_ok" /\ call.done

\* C16: the ABI check accepts a function type iff arg_count <= 11, the return
\* type is not void and is, after stripping modifiers/typedefs, integer, enum,
\* pointer to void or pointer to struct/union (a pointer to a modifier- or
\* typedef-wrapped struct or void included), and every parameter is non-void
\* and, after stripping, integer, pointer or enum.
C16_AbiCheckMatchesReference ==
    TypeCallDone =>
        LET btf == ZooBtf(call.proto) IN
        call.out = AbiReference(btf, btf[Len(ZooTypes) + 1])

\* the 0-based indexes of the attach entries of arity k
IndexesOfArity(k) == {e - 1 : e \in {x \in 1..Len(att.func_infos) : att.func_infos[x].arg_cnt = k}}

\* C17: func_info_id_for_arg_cnt[k] is write-once: it is set when the first
\* entry of arity k is accepted and no later acceptance changes it, so it is
\* the lowest index among the entries of arity k, index 0 included, and the
\* arity-k template programs are armed with that first entry's name.
C17_FirstIndexWriteOnce ==
    \A k \in Arities :
        att.func_info_cnts[k] > 0 =>
            /\ att.func_info_id_for_arg_cnt[k] = Min(IndexesOfArity(k))
            /\ pc = "prepared" =>
                  \A kind \in {"fentry", "fexit"} :
                      skel.attach_target[Prog(kind, k)] =
                          att.func_infos[Min(IndexesOfArity(k)) + 1].name

AttacherLive == pc \notin {"start", "no_attacher", "freed"}

\* C18: in every reachable state of the attacher, from new until free, the
\* captured entry bytecode and the captured exit bytecode of arity k are
\* present iff func_info_cnts[k] > 0.
C18_InsnsIffCount ==
    AttacherLive =>
        \A k \in Arities :
            /\ att.fentries_insns[k].present <=> att.func_info_cnts[k] > 0
            /\ att.fexits_insns[k].present <=> att.func_info_cnts[k] > 0

\* C18 as amended: captured bytecode is present for an arity only if the arity
\* has entries, at any time; once the template load of load has succeeded, and
\* until free, the entry and the exit bytecode of arity k are both present iff
\* func_info_cnts[k] > 0.
C18_InsnsAfterLoad ==
    \A k \in Arities :
        /\ att.fentries_insns[k].present \/ att.fexits_insns[k].present
              => att.func_info_cnts[k] > 0
        /\ SkelLoaded =>
              /\ att.fentries_insns[k].present <=> att.func_info_cnts[k] > 0
              /\ att.fexits_insns[k].present <=> att.func_info_cnts[k] > 0

\* the template is loaded with bytecode captured for two arities and for no other
C18_Witness ==
    /\ pc = "load_clone"
    /\ Cardinality({k \in Arities : att.func_info_cnts[k] > 0}) = 2
    /\ Cardinality({k \in Arities : att.fentries_insns[k].present}) = 2
    /\ Cardinality({k \in Arities : att.fexits_insns[k].present}) = 2

\* what a step of the type loop leaves alone once the limit has been reached
C19_Step ==
    pc = "prepare_loop" /\ limit_reached(att.max_func_cnt, att.func_cnt) =>
        /\ candidates' = candidates
        /\ att'.deny_globs = att.deny_globs
        /\ att'.allow_globs = att.allow_globs
        /\ filter_calls' = filter_calls

\* C19: iteration halts when max_func_cnt is reached: once the max_func_cnt-th
\* entry has been accepted no function with a larger type id is evaluated, so
\* no deny or allow counter is incremented and the user predicate is not
\* called for any function after the last accepted one.
C19_HaltsAtLimit == [][C19_Step]_vars

\* C20: the thread-local current-attacher pointer is non-null only while the
\* template loader runs inside load: it is null before load, it points to the
\* loading attacher at every invocation of the prep hook, and it is null in
\* every state after load has returned, whether the template load succeeded
\* or failed and whether or not a later clone failed.
C20_CurAttacherScoped ==
    /\ cur_attacher <=> pc = "skel_load"
    /\ \A k \in 1..Len(hook_calls) : hook_calls[k].attacher

\* load has failed at a clone, after the prep hook ran for two programs or more
C20_Witness ==
    /\ pc = "load_failed"
    /\ Len(hook_calls) >= 2
    /\ Len(clone_calls) > 0
    /\ ret < 0
    /\ ~cur_attacher

\* bpf_map_lookup_elem(ip_to_id, addr): the values stored under addr
MapLookup(addr) == {m[2] : m \in {x \in skel.ip_to_id : x[1] = addr}}

\* C21: after a successful load, looking up any attach entry's address in the
\* ip_to_id map yields that entry's own index, for every attach plan prepare
\* can produce (plans where two functions of the type database resolve to one
\* symbol included); the map never holds more than func_cnt elements, and map
\* writes and clones happen in attach-entry order.
C21_MapLookup ==
    /\ Cardinality(skel.ip_to_id) <= att.func_cnt
    /\ pc \in {"load_clone", "loaded"} =>
          /\ Len(clone_calls) = 2 * i
          /\ \A e \in 1..i :
                /\ clone_calls[2 * e - 1].attr.attach_btf_id = att.func_infos[e].btf_id
                /\ clone_calls[2 * e].attr.attach_btf_id = att.func_infos[e].btf_id
    /\ LoadDone =>
          \A e \in 1..Len(att.func_infos) :
              MapLookup(att.func_infos[e].addr) = {e - 1}

\* C22: the ABI check terminates on every type database, one whose
\* modifier/typedef chain is cyclic included: stripping modifiers/typedefs is
\* bounded, so the check of a return or parameter type always returns.
C22_StripTerminates == <>(call.done)

====
